---- MODULE Spec2Model ----
(***************************************************************************)
(* scripts/process.py: the World Bank CPI table is read as CSV (get_csv),  *)
(* unwound from one column per year to one row per (country, year) by the  *)
(* generators process_long / process_wide, and written out by write_csv.   *)
(*                                                                         *)
(* Positions are Python positions (0-based) wherever the code computes     *)
(* with them; At(s, i) is Python's s[i].                                   *)
(***************************************************************************)
EXTENDS Naturals, Sequences, FiniteSets, TLC

\* Largest number of data rows the source holds.
MaxRows == 2

\* ---------------------------------------------------------------- inputs

\* The year labels a source header can carry after its two leading columns.
YearLabels == <<"2000", "2001">>

\* Headers of the source: two leading columns, then 0, 1 or 2 year columns;
\* and the blank first line, which the csv reader returns as the empty list.
HeaderSet == { <<"Country Name", "Country Code">> \o SubSeq(YearLabels, 1, n) :
               n \in 0..Len(YearLabels) } \cup { <<>> }

\* A cell is empty (no observation) or holds a value.
CellValues == {"", "2.5"}

\* Name and 3-letter code of a data row; XKX is not in the reference table.
Countries == { <<"Iceland", "ISL">>, <<"Kosovo", "XKX">> }

CellSeqs == UNION { [1..n -> CellValues] : n \in 0..Len(YearLabels) }

\* Data rows: name, code, then up to two cells; and the blank line, which
\* the csv reader returns as the empty list.
RowSet == { c \o cells : c \in Countries, cells \in CellSeqs } \cup { <<>> }

\* pycountry's table, 3-letter code to 2-letter code.
Table == [ c \in {"ISL", "NOR"} |-> IF c = "ISL" THEN "IS" ELSE "NO" ]

\* filename=None, and a given file name.
None == [given |-> FALSE, name |-> ""]
Some(s) == [given |-> TRUE, name |-> s]
OutputArgs == {"data"}

\* What the destination path held before the run.
StaleRow == [via |-> "csv", row |-> <<"stale">>]

VARIABLES
    mode,        \* "boot", "script" (run as __main__) or "call" (imported)
    pc,          \* position of the caller of write_csv
    argsFilename,\* args.filename
    headers,     \* the header row get_csv returned
    source,      \* the data rows of the source read so far, in order
    eof,         \* the source ends after Len(source) rows
    err,         \* the exception that ended the run, "" if none
    stdoutData,  \* what has been written to sys.stdout
    stdoutOpen,  \* sys.stdout is not closed
    disk,        \* path -> rows held by the file at that path
    fileOpen,    \* the file object write_csv opened is open
    wpc,         \* position inside write_csv
    wfilename,   \* write_csv's filename parameter
    output,      \* write_csv's output: "none", "stdout" or "file"
    lpc,         \* position of the process_long generator
    lrd,         \* number of data rows process_long has pulled from rows
    lk,          \* process_long: pairs of enumerate(row[2:]) consumed
    lreq,        \* a next() call on process_long is in progress
    litem,       \* the item process_long yielded last
    lout,        \* every item process_long yielded, in order
    lorigin,     \* for each item of lout, <<row number, column position>>
    vpc,         \* position of the process_wide generator
    vrd,         \* number of data rows process_wide has pulled from rows
    vk,          \* process_wide: pairs of enumerate(row[2:]) consumed
    vout,        \* every item process_wide yielded, in order
    vorigin      \* for each item of vout, <<row number, column position>>

cvars == <<mode, pc, argsFilename, headers, err>>
svars == <<source, eof>>
ovars == <<stdoutData, stdoutOpen, disk, fileOpen>>
wvars == <<wpc, wfilename, output>>
lvars == <<lpc, lrd, lk, lreq, litem, lout, lorigin>>
vvars == <<vpc, vrd, vk, vout, vorigin>>
vars == <<cvars, svars, ovars, wvars, lvars, vvars>>

\* ------------------------------------------------------- pure helpers

\* Python's s[i] for 0 <= i < len(s).
At(s, i) == s[i + 1]

\* Python's s[2:]
From2(row) == SubSeq(row, 3, Len(row))

\* Python's s[:2]
First2(row) == SubSeq(row, 1, IF Len(row) < 2 THEN Len(row) ELSE 2)

\* Faulty variant of Enumerate: the pairs taken from the last cell to the first.
EnumerateReversed(s) ==
    [ k \in 1..Len(s) |-> <<Len(s) - k, s[Len(s) - k + 1]>> ]

\* enumerate(s): the pairs <<index, element>>, index from 0, in order.
Enumerate(s) == [ k \in 1..Len(s) |-> <<k - 1, s[k]>> ]

\* Faulty variant of Truthy: the test "if cpi:" left out.
TruthyAlways(cpi) == TRUE

\* "if cpi:" -- a string is true unless it is empty.
Truthy(cpi) == cpi /= ""

\* Faulty variant of Alpha2: a code the table lacks is passed through unchanged.
Alpha2NoFallback(row) ==
    IF At(row, 1) \in DOMAIN Table THEN Table[At(row, 1)] ELSE At(row, 1)

\* pycountry.countries.get(alpha3=row[1]).alpha2, "XK" on KeyError.
Alpha2(row) == IF At(row, 1) \in DOMAIN Table THEN Table[At(row, 1)] ELSE "XK"

\* Faulty variant of YearOf: headers[index+1], the 2 of the skipped columns taken
\* as 1.
YearOfOffByOne(hdrs, index) ==
    IF index + 2 < Len(hdrs)
    THEN [ok |-> TRUE, val |-> At(hdrs, index + 1)]
    ELSE [ok |-> FALSE, val |-> "IndexError"]

\* Faulty variant of YearOf: a position past the end of the header gives an empty
\* year instead of IndexError.
YearOfLenient(hdrs, index) ==
    IF index + 2 < Len(hdrs)
    THEN [ok |-> TRUE, val |-> At(hdrs, index + 2)]
    ELSE [ok |-> TRUE, val |-> ""]

\* headers[index+2]: the element, or IndexError past the end.
YearOf(hdrs, index) ==
    IF index + 2 < Len(hdrs)
    THEN [ok |-> TRUE, val |-> At(hdrs, index + 2)]
    ELSE [ok |-> FALSE, val |-> "IndexError"]

LongHeader == <<"iso2c", "year", "cpi">>
WideHeader == <<"Country Name", "Country Code", "Year", "CPI">>

\* The row process_long yields for a cell.
LongRow(row, year, cpi) == <<Alpha2(row)>> \o <<year, cpi>>

\* Faulty variant of WideRow: the 3-letter code translated as process_long does.
WideRowTranslated(row, year, cpi) == <<At(row, 0), Alpha2(row)>> \o <<year, cpi>>

\* The row process_wide yields for a cell.
WideRow(row, year, cpi) == First2(row) \o <<year, cpi>>

\* Faulty variant of PathFails: None taken as the empty string.
PathNeverFails(fn) == FALSE

\* args.filename+"/cpi-long.csv": TypeError when args.filename is None.
PathFails(fn) == ~fn.given
OutputPath(fn) == fn.name \o "/cpi-long.csv"

\* ------------------------------------------------------------- reader

\* csvreader.next() at position p: the outcomes, each with the source as it
\* is known afterwards.  A row already read by the other reader is read
\* again unchanged.
ReaderNext(p) ==
    IF p < Len(source)
    THEN { [stop |-> FALSE, src |-> source, end |-> eof] }
    ELSE IF eof \/ Len(source) >= MaxRows
         THEN { [stop |-> TRUE, src |-> source, end |-> TRUE] }
         ELSE { [stop |-> FALSE, src |-> Append(source, r), end |-> FALSE] :
                r \in RowSet }
              \cup { [stop |-> TRUE, src |-> source, end |-> TRUE] }

Init ==
    /\ mode = "boot" /\ pc = "start"
    /\ argsFilename = None
    /\ headers = <<>>
    /\ source = <<>> /\ eof = FALSE
    /\ err = ""
    /\ stdoutData = <<>> /\ stdoutOpen = TRUE
    /\ disk \in { [p \in {"data", OutputPath(Some("data"))} |-> c] :
                  c \in {<<>>, <<StaleRow>>} }
    /\ fileOpen = FALSE
    /\ wpc = "idle" /\ wfilename = None /\ output = "none"
    /\ lpc = "none" /\ lrd = 0 /\ lk = 0 /\ lreq = FALSE
    /\ litem = <<>> /\ lout = <<>> /\ lorigin = <<>>
    /\ vpc = "none" /\ vrd = 0 /\ vk = 0 /\ vout = <<>> /\ vorigin = <<>>


\* ------------------------------------------------- process_long (41-68)

\* process_long(headers, rows): the generator object; no line of its body
\* runs before the first next().
NewLong ==
    /\ lpc' = "created" /\ lrd' = 0 /\ lk' = 0 /\ lreq' = FALSE
    /\ litem' = <<>> /\ lout' = <<>> /\ lorigin' = <<>>

\* yield item: the generator suspends and next() returns the item.
LongYield(item, origin) ==
    /\ litem' = item
    /\ lout' = Append(lout, item)
    /\ lorigin' = Append(lorigin, origin)
    /\ lreq' = FALSE

\* Faulty variant of LongStart: the first data row is pulled from the reader before
\* the header is yielded.
LongStartEager ==
    /\ lreq /\ lpc = "created"
    /\ LongYield(LongHeader, <<0, 0>>)
    /\ \E o \in ReaderNext(lrd) :
         /\ source' = o.src /\ eof' = o.end
         /\ IF o.stop
            THEN lpc' = "rows" /\ UNCHANGED <<lrd, lk>>
            ELSE lpc' = "cells" /\ lrd' = lrd + 1 /\ lk' = 0
    /\ UNCHANGED <<cvars, ovars, wvars, vvars>>

\* Line 53: the first next() yields the fixed header.
LongStart ==
    /\ lreq /\ lpc = "created"
    /\ lpc' = "rows"
    /\ LongYield(LongHeader, <<0, 0>>)
    /\ UNCHANGED <<lrd, lk>>
    /\ UNCHANGED <<cvars, svars, ovars, wvars, vvars>>

\* Line 55, "for row in rows": the next row, or the end of the generator.
LongNextRow ==
    /\ lreq /\ lpc = "rows"
    /\ \E o \in ReaderNext(lrd) :
         /\ source' = o.src /\ eof' = o.end
         /\ IF o.stop
            THEN /\ lpc' = "done" /\ lreq' = FALSE
                 /\ UNCHANGED <<lrd, lk>>
            ELSE /\ lpc' = "cells" /\ lrd' = lrd + 1 /\ lk' = 0
                 /\ UNCHANGED lreq
    /\ UNCHANGED <<litem, lout, lorigin>>
    /\ UNCHANGED <<cvars, ovars, wvars, vvars>>

\* Lines 58-68, one turn of "for index, cpi in enumerate(row[2:])".
LongCell ==
    /\ lreq /\ lpc = "cells"
    /\ LET row   == source[lrd]
           pairs == Enumerate(From2(row))
       IN IF lk >= Len(pairs)
          THEN /\ lpc' = "rows"
               /\ UNCHANGED <<lrd, lk, lreq, litem, lout, lorigin, err>>
          ELSE LET index == pairs[lk + 1][1]
                   cpi   == pairs[lk + 1][2]
                   year  == YearOf(headers, index)
               IN IF ~Truthy(cpi)
                  THEN /\ lk' = lk + 1
                       /\ UNCHANGED <<lpc, lrd, lreq, litem, lout, lorigin, err>>
                  ELSE IF ~year.ok
                  THEN /\ lpc' = "raised" /\ lreq' = FALSE
                       /\ err' = year.val
                       /\ UNCHANGED <<lrd, lk, litem, lout, lorigin>>
                  ELSE /\ LongYield(LongRow(row, year.val, cpi),
                                    <<lrd, index + 2>>)
                       /\ lk' = lk + 1
                       /\ UNCHANGED <<lpc, lrd, err>>
    /\ UNCHANGED <<mode, pc, argsFilename, headers>>
    /\ UNCHANGED <<svars, ovars, wvars, vvars>>

\* ------------------------------------------------- process_wide (70-93)

\* Line 82: the first next() yields the fixed header.
WideStart ==
    /\ pc = "wide" /\ vpc = "created"
    /\ vpc' = "rows"
    /\ vout' = Append(vout, WideHeader)
    /\ vorigin' = Append(vorigin, <<0, 0>>)
    /\ UNCHANGED <<vrd, vk>>
    /\ UNCHANGED <<cvars, svars, ovars, wvars, lvars>>

\* Line 84, "for row in rows".
WideNextRow ==
    /\ pc = "wide" /\ vpc = "rows"
    /\ \E o \in ReaderNext(vrd) :
         /\ source' = o.src /\ eof' = o.end
         /\ IF o.stop
            THEN /\ vpc' = "done" /\ UNCHANGED <<vrd, vk>>
            ELSE /\ vpc' = "cells" /\ vrd' = vrd + 1 /\ vk' = 0
    /\ UNCHANGED <<vout, vorigin>>
    /\ UNCHANGED <<cvars, ovars, wvars, lvars>>

\* Lines 87-93, one turn of "for index, cpi in enumerate(row[2:])".
WideCell ==
    /\ pc = "wide" /\ vpc = "cells"
    /\ LET row   == source[vrd]
           pairs == Enumerate(From2(row))
       IN IF vk >= Len(pairs)
          THEN /\ vpc' = "rows"
               /\ UNCHANGED <<vrd, vk, vout, vorigin>>
          ELSE LET index == pairs[vk + 1][1]
                   cpi   == pairs[vk + 1][2]
                   year  == YearOf(headers, index)
               IN IF ~Truthy(cpi)
                  THEN /\ vk' = vk + 1
                       /\ UNCHANGED <<vpc, vrd, vout, vorigin>>
                  ELSE IF ~year.ok
                  THEN /\ vpc' = "raised"
                       /\ UNCHANGED <<vrd, vk, vout, vorigin>>
                  ELSE /\ vout' = Append(vout, WideRow(row, year.val, cpi))
                       /\ vorigin' = Append(vorigin, <<vrd, index + 2>>)
                       /\ vk' = vk + 1
                       /\ UNCHANGED <<vpc, vrd>>
    /\ UNCHANGED <<cvars, svars, ovars, wvars, lvars>>

\* ---------------------------------------------------- write_csv (95-108)

\* What "print headers" adds to standard output, and what write_csv adds.
Printed(hdrs) == [via |-> "print", row |-> hdrs]
CsvLine(row) == [via |-> "csv", row |-> row]

\* Faulty variant of OpenedForWriting: the file opened in append mode.
OpenedForAppend(old) == old

\* open(filename, 'w') creates the file or truncates it.
OpenedForWriting(old) == <<>>

\* The destination's content after csvwriter has written one more row.
Written(old, row) == Append(old, row)

\* Line 102: sys.stdout when filename is None, else the file opened for
\* writing (IOError when it cannot be opened); then writerows (line 106)
\* asks the rows for their first item.
WriteCsvOpen ==
    /\ wpc = "enter"
    /\ IF ~wfilename.given
       THEN /\ output' = "stdout" /\ wpc' = "rows" /\ lreq' = TRUE
            /\ UNCHANGED <<disk, fileOpen, err>>
       ELSE \/ /\ output' = "file" /\ wpc' = "rows" /\ lreq' = TRUE
               /\ fileOpen' = TRUE
               /\ disk' = [disk EXCEPT ![wfilename.name] = OpenedForWriting(@)]
               /\ UNCHANGED err
            \/ /\ wpc' = "raised" /\ err' = "IOError"
               /\ UNCHANGED <<output, lreq, disk, fileOpen>>
    /\ UNCHANGED <<mode, pc, argsFilename, headers, wfilename>>
    /\ UNCHANGED <<stdoutData, stdoutOpen, svars, vvars>>
    /\ UNCHANGED <<lpc, lrd, lk, litem, lout, lorigin>>

\* Line 106, one turn of writerows: the item next() returned is written to
\* the output (IOError when the write fails) and the next item is asked for.
WriterowsWrite ==
    /\ wpc = "rows" /\ ~lreq /\ lpc \in {"rows", "cells"}
    /\ \/ /\ IF output = "stdout"
             THEN /\ stdoutData' = Written(stdoutData, CsvLine(litem))
                  /\ UNCHANGED disk
             ELSE /\ disk' = [disk EXCEPT ![wfilename.name] =
                                               Written(@, CsvLine(litem))]
                  /\ UNCHANGED stdoutData
          /\ lreq' = TRUE
          /\ UNCHANGED <<wpc, err>>
       \/ /\ wpc' = "raised" /\ err' = "IOError"
          /\ UNCHANGED <<stdoutData, disk, lreq>>
    /\ UNCHANGED <<mode, pc, argsFilename, headers, wfilename, output>>
    /\ UNCHANGED <<stdoutOpen, fileOpen, svars, vvars>>
    /\ UNCHANGED <<lpc, lrd, lk, litem, lout, lorigin>>

\* Line 106: an exception raised by the rows leaves writerows and write_csv.
WriterowsRaise ==
    /\ wpc = "rows" /\ ~lreq /\ lpc = "raised"
    /\ wpc' = "raised"
    /\ UNCHANGED <<wfilename, output>>
    /\ UNCHANGED <<cvars, svars, ovars, lvars, vvars>>

\* Line 108: the rows are exhausted; output.close(), and write_csv returns.
WriteCsvClose ==
    /\ wpc = "rows" /\ ~lreq /\ lpc = "done"
    /\ wpc' = "returned"
    /\ IF output = "stdout"
       THEN stdoutOpen' = FALSE /\ UNCHANGED fileOpen
       ELSE fileOpen' = FALSE /\ UNCHANGED stdoutOpen
    /\ UNCHANGED <<wfilename, output, stdoutData, disk>>
    /\ UNCHANGED <<cvars, svars, lvars, vvars>>


\* ------------------------------------------------------ get_csv (28-39)

\* urllib.urlopen(source) fails (IOError), or the reader is made and its
\* first row is returned as the headers; a source with no row at all ends
\* csvreader.next() with StopIteration.
GetCsv ==
    /\ pc = "get_csv"
    /\ \/ /\ err' = "IOError" /\ pc' = "fatal" /\ UNCHANGED headers
       \/ /\ err' = "StopIteration" /\ pc' = "fatal" /\ UNCHANGED headers
       \/ /\ \E h \in HeaderSet : headers' = h
          /\ pc' = IF mode = "script" THEN "print" ELSE "invoke"
          /\ UNCHANGED err
    /\ UNCHANGED <<mode, argsFilename>>
    /\ UNCHANGED <<svars, ovars, wvars, lvars, vvars>>

\* ---------------------------------------------------- __main__ (110-135)

\* Lines 112-123: the arguments; -o is given or args.filename stays None.
ParseArgs ==
    /\ mode = "boot"
    /\ mode' = "script" /\ pc' = "get_csv"
    /\ \E fn \in {None} \cup { Some(s) : s \in OutputArgs } : argsFilename' = fn
    /\ UNCHANGED <<headers, err>>
    /\ UNCHANGED <<svars, ovars, wvars, lvars, vvars>>

\* Line 127: print headers.
PrintHeaders ==
    /\ mode = "script" /\ pc = "print"
    /\ stdoutData' = Append(stdoutData, Printed(headers))
    /\ pc' = "process"
    /\ UNCHANGED <<mode, argsFilename, headers, err>>
    /\ UNCHANGED <<stdoutOpen, disk, fileOpen, svars, wvars, lvars, vvars>>

\* Line 130: long_processed_rows = process_long(headers, rows).
MakeLong ==
    /\ mode = "script" /\ pc = "process"
    /\ NewLong
    /\ pc' = "write"
    /\ UNCHANGED <<mode, argsFilename, headers, err>>
    /\ UNCHANGED <<svars, ovars, wvars, vvars>>

\* Line 134: the argument args.filename+"/cpi-long.csv" is evaluated
\* (TypeError for None) and write_csv is entered with it.
MainWriteCsv ==
    /\ mode = "script" /\ pc = "write"
    /\ IF PathFails(argsFilename)
       THEN /\ err' = "TypeError" /\ pc' = "fatal"
            /\ UNCHANGED wvars
       ELSE /\ wfilename' = Some(OutputPath(argsFilename))
            /\ wpc' = "enter" /\ pc' = "inwrite"
            /\ UNCHANGED <<err, output>>
    /\ UNCHANGED <<mode, argsFilename, headers>>
    /\ UNCHANGED <<svars, ovars, lvars, vvars>>

\* write_csv has returned, and the script ends; or it has raised, and the
\* unhandled exception ends the script.
MainExit ==
    /\ mode = "script" /\ pc = "inwrite"
    /\ wpc \in {"returned", "raised"}
    /\ pc' = IF wpc = "returned" THEN "exit0" ELSE "fatal"
    /\ UNCHANGED <<mode, argsFilename, headers, err>>
    /\ UNCHANGED <<svars, ovars, wvars, lvars, vvars>>

\* ------------------------------------------- the module, imported

\* import process: the __main__ block is skipped (line 110).
Import ==
    /\ mode = "boot"
    /\ mode' = "call" /\ pc' = "get_csv"
    /\ UNCHANGED <<argsFilename, headers, err>>
    /\ UNCHANGED <<svars, ovars, wvars, lvars, vvars>>

\* write_csv(process_long(headers, rows), filename), filename None or a name.
CallWriteCsv ==
    /\ mode = "call" /\ pc = "invoke"
    /\ NewLong
    /\ \E fn \in {None} \cup { Some(s) : s \in OutputArgs } : wfilename' = fn
    /\ wpc' = "enter" /\ pc' = "inwrite"
    /\ UNCHANGED <<mode, argsFilename, headers, err, output>>
    /\ UNCHANGED <<svars, ovars, vvars>>

\* process_wide(headers, rows) over a second reader of the same source,
\* once write_csv has been left; the caller then takes all its items.
CallProcessWide ==
    /\ mode = "call" /\ pc = "inwrite"
    /\ wpc \in {"returned", "raised"}
    /\ vpc' = "created" /\ vrd' = 0 /\ vk' = 0
    /\ vout' = <<>> /\ vorigin' = <<>>
    /\ pc' = "wide"
    /\ UNCHANGED <<mode, argsFilename, headers, err>>
    /\ UNCHANGED <<svars, ovars, wvars, lvars>>

Next ==
    \/ ParseArgs \/ GetCsv \/ PrintHeaders \/ MakeLong \/ MainWriteCsv
    \/ MainExit
    \/ Import \/ CallWriteCsv \/ CallProcessWide
    \/ WriteCsvOpen \/ WriterowsWrite \/ WriterowsRaise \/ WriteCsvClose
    \/ LongStart \/ LongNextRow \/ LongCell
    \/ WideStart \/ WideNextRow \/ WideCell

Spec == Init /\ [][Next]_vars


\* ================================================================ claims

\* Python positions (>= 2) of the non-empty indicator cells of a row.
NonEmptyAt(row) == { j \in 2..(Len(row) - 1) : At(row, j) /= "" }

RECURSIVE NonEmptyUpTo(_)
\* Number of non-empty indicator cells in the first n rows of the source.
NonEmptyUpTo(n) ==
    IF n = 0 THEN 0 ELSE NonEmptyUpTo(n - 1) + Cardinality(NonEmptyAt(source[n]))

\* Every cell of the rows process_long has pulled lies under a header cell.
Aligned == \A r \in 1..lrd : Len(source[r]) <= Len(headers)

\* <<r1, j1>> comes before <<r2, j2>>: earlier row, or same row and
\* earlier column.
Before(a, b) == a[1] < b[1] \/ (a[1] = b[1] /\ a[2] < b[2])

\* The data items of lout are at 2..Len(lout); the cell item i came from.
DataItems == 2..Len(lout)
CellOf(i) == [r |-> lorigin[i][1], j |-> lorigin[i][2]]
IsCell(c) == c.r \in 1..Len(source) /\ c.j >= 2 /\ c.j < Len(source[c.r])

\* What write_csv's destination holds of csv rows.
IsCsv(x) == x.via = "csv"
Destination ==
    IF output = "stdout" THEN SelectSeq(stdoutData, IsCsv)
    ELSE IF output = "file" THEN disk[wfilename.name]
    ELSE <<>>

\* C1: on rows aligned with the header process_long never fails, and when
\* it ends it has yielded the fixed header once, first, and then exactly
\* one row per non-empty indicator cell of all the input rows.
C1_HeaderThenOneRowPerCell ==
    Aligned =>
      /\ lpc /= "raised"
      /\ lpc = "done" =>
           /\ lrd = Len(source)
           /\ Len(lout) = 1 + NonEmptyUpTo(Len(source))
           /\ lout[1] = LongHeader
           /\ \A i \in DataItems : lout[i] /= LongHeader

C1_Witness ==
    /\ lpc = "done" /\ Aligned /\ Len(source) = 2
    /\ NonEmptyAt(source[1]) = {} /\ Len(source[1]) = 4
    /\ Cardinality(NonEmptyAt(source[2])) = 2
    /\ Len(lout) = 3

\* C2: the row yielded for the non-empty cell at position j of an input row
\* carries the header's element at position j as its year and the cell's
\* content as its value.
C2_YearAndValue ==
    \A i \in DataItems :
      LET c == CellOf(i) IN
        /\ IsCell(c)
        /\ c.j < Len(headers)
        /\ Len(lout[i]) = 3
        /\ lout[i][2] = At(headers, c.j)
        /\ lout[i][3] = At(source[c.r], c.j)
        /\ lout[i][3] /= ""

C2_Witness ==
    /\ Len(headers) = 4 /\ Len(lout) = 2
    /\ lorigin[2] = <<1, 3>>
    /\ source[1] = <<"Iceland", "ISL", "", "2.5">>
    /\ lout[2] = <<"IS", "2001", "2.5">>

\* C3: the country code of a yielded row is the table's 2-letter code for the
\* row's 3-letter code, or "XK" when the table has none; a row whose code is
\* missing from the table still yields one row per non-empty cell.
C3_CodeOrSentinel ==
    /\ \A i \in DataItems :
         LET c == CellOf(i) IN
           /\ IsCell(c)
           /\ LET code == At(source[c.r], 1) IN
                lout[i][1] = IF code \in DOMAIN Table THEN Table[code] ELSE "XK"
    /\ (lpc = "done" /\ Aligned) =>
         \A r \in 1..Len(source) :
           (Len(source[r]) >= 2 /\ At(source[r], 1) \notin DOMAIN Table) =>
             Cardinality({ i \in DataItems : lorigin[i][1] = r })
               = Cardinality(NonEmptyAt(source[r]))

C3_Witness ==
    /\ lpc = "done" /\ Len(lout) = 3
    /\ source = << <<"Kosovo", "XKX", "2.5">>, <<"Iceland", "ISL", "2.5">> >>
    /\ lout[2][1] = "XK" /\ lout[3][1] = "IS"

\* C4: write_csv has closed the file it opened whenever it has been left,
\* by returning or by an exception.
C4_ClosedOnEveryExit ==
    (wpc \in {"returned", "raised"} /\ output = "file") => ~fileOpen

\* C5: the destination of write_csv is standard output exactly when filename
\* is None, and else the named file, emptied when opened; it holds the rows
\* handed to write_csv so far in the order given, and all of them once
\* write_csv has returned.
C5_RowsInOrder ==
    /\ wpc \in {"rows", "returned"} =>
         /\ output = (IF wfilename.given THEN "file" ELSE "stdout")
         /\ Len(Destination) <= Len(lout)
         /\ \A i \in 1..Len(Destination) : Destination[i] = CsvLine(lout[i])
    /\ wpc = "returned" => Len(Destination) = Len(lout)
    /\ output = "file" => SelectSeq(stdoutData, IsCsv) = <<>>

C5_Witness ==
    /\ wpc = "returned" /\ output = "stdout" /\ ~wfilename.given
    /\ Len(lout) = 3
    /\ stdoutData = << CsvLine(lout[1]), CsvLine(lout[2]), CsvLine(lout[3]) >>

\* C6: process_long yields its rows in input-row order and, within an input
\* row, in increasing column order: of two yielded rows the first comes
\* before the second exactly when its cell comes before the other's.
C6_RowThenColumnOrder ==
    \A i \in DataItems : \A k \in DataItems :
      (i < k) <=> Before(lorigin[i], lorigin[k])

C6_Witness ==
    /\ Len(lout) = 4
    /\ lorigin = << <<0, 0>>, <<1, 2>>, <<1, 3>>, <<2, 2>> >>

\* The cells process_long has gone past: those of the rows before the
\* current one, and the first lk cells of the current row.
Passed(r, j) == r < lrd \/ (r = lrd /\ j - 2 < lk)
OutOfRange(j) == j >= Len(headers)

\* C7 as stated: process_long never gets past an indicator cell that lies
\* beyond the end of the header (the access is fatal at that cell).
C7_AnyCellBeyondHeaderIsFatal ==
    \A r \in 1..lrd : \A j \in 2..(Len(source[r]) - 1) :
      OutOfRange(j) => ~Passed(r, j)

\* C7, amended: process_long never gets past a non-empty indicator cell
\* that lies beyond the end of the header; it fails with IndexError exactly
\* at such a cell, having yielded one row per non-empty cell before it and
\* nothing for it or after it.
C7_NonEmptyCellBeyondHeaderIsFatal ==
    /\ \A r \in 1..lrd : \A j \in NonEmptyAt(source[r]) :
         OutOfRange(j) => ~Passed(r, j) /\ lpc /= "done"
    /\ lpc = "raised" =>
         /\ err = "IndexError"
         /\ lrd >= 1 /\ lk + 2 \in NonEmptyAt(source[lrd])
         /\ OutOfRange(lk + 2)
         /\ \A i \in DataItems : Before(lorigin[i], <<lrd, lk + 2>>)
         /\ Len(lout) = 1 + NonEmptyUpTo(lrd - 1)
              + Cardinality({ j \in NonEmptyAt(source[lrd]) : j < lk + 2 })
         /\ wpc \in {"rows", "raised"}
         /\ Len(Destination) <= Len(lout)

C7_Witness ==
    /\ lpc = "raised" /\ wpc = "raised" /\ pc = "fatal"
    /\ Len(headers) = 3 /\ lrd = 2
    /\ source[2] = <<"Iceland", "ISL", "2.5", "2.5">>
    /\ Len(lout) = 3 /\ Len(Destination) = 3

\* C8: one lazy forward pass: the header has been written before any data
\* row is pulled from the reader, and every row derived from the data rows
\* before the current one has been written before the current one is
\* pulled, so a run that fails at a data row has written all of them.
C8_LazyForwardPass ==
    lrd >= 1 =>
      /\ output /= "none"
      /\ Len(Destination) >= 1
      /\ Destination[1] = CsvLine(LongHeader)
      /\ \A i \in 1..Len(lout) :
           lorigin[i][1] < lrd =>
             i <= Len(Destination) /\ Destination[i] = CsvLine(lout[i])

C8_Witness ==
    /\ mode = "script" /\ pc = "fatal" /\ lrd = 2
    /\ Len(lout) >= 2 /\ lorigin[Len(lout)][1] = 1
    /\ Len(Destination) = Len(lout)

MinLen(a, b) == IF Len(a) < Len(b) THEN Len(a) ELSE Len(b)

\* C9: process_wide and process_long on the same header and rows yield
\* their fixed headers first and then, item by item, rows for the same cell
\* with the same year and value, the process_wide row starting with the
\* input row's first two elements unchanged; run to their ends they end the
\* same way with the same number of items.
C9_WideMatchesLong ==
    /\ \A i \in 1..MinLen(lout, vout) :
         IF i = 1
         THEN lout[1] = LongHeader /\ vout[1] = WideHeader
         ELSE /\ vorigin[i] = lorigin[i]
              /\ IsCell(CellOf(i))
              /\ Len(vout[i]) = 4
              /\ vout[i][1] = At(source[CellOf(i).r], 0)
              /\ vout[i][2] = At(source[CellOf(i).r], 1)
              /\ vout[i][3] = lout[i][2]
              /\ vout[i][4] = lout[i][3]
    /\ (lpc \in {"done", "raised"} /\ vpc \in {"done", "raised"}) =>
         /\ vpc = lpc
         /\ Len(vout) = Len(lout)

C9_Witness ==
    /\ lpc = "done" /\ vpc = "done"
    /\ Len(vout) = 3
    /\ vout[2] = <<"Kosovo", "XKX", "2000", "2.5">>
    /\ lout[2] = <<"XK", "2000", "2.5">>

====
